---- MODULE Spec2Model ----
(***************************************************************************)
(* Model of metronome-audio-to-midi.c: a JACK client whose realtime        *)
(* callback process() detects metronome beats with a two-threshold         *)
(* detector and emits MIDI clock events, while the loop of main() edits    *)
(* the detector's parameters from the keyboard.                            *)
(*                                                                         *)
(* Numbers.  float values are fixed point: the raw parameters (dB, ms) are *)
(* counted in thousandths, linear amplitudes in millionths of full scale.  *)
(* jack_nframes_t is uint32_t; the model keeps the modular arithmetic but  *)
(* wraps at FrameMod instead of 2^32.                                      *)
(***************************************************************************)
EXTENDS Integers, Sequences, FiniteSets, TLC

\* ---------------------------------------------------------------- bounds
FrameMod == 1024        \* modulus of jack_nframes_t in the model (2^32 in the build)
WrapLead == 4           \* a run may start this many frames before the counter wraps
BufferSize == 2         \* nframes of one callback
MaxFrames == 6          \* samples processed in a run with free input
MaxClickFrames == 150   \* samples processed in a run with a metronome
FirstClick == 2         \* sample at which the metronome's first click starts
MaxCtlFrames == 2       \* samples processed in a run that exercises the keyboard
DbSpan == 1             \* whole steps a raw parameter may be moved, free input
CtlSpan == 72           \* whole steps the rising threshold may be lowered, keyboard runs
FineSpan == 2           \* small steps a raw parameter may be moved, keyboard runs
PulseWidth == 2         \* samples a metronome click stays loud

\* ------------------------------------------------------ program constants
PPQN == 24                       \* = 24 in "/ 24"
WarmupBeats == 4                 \* "nDetectedBeats > 4"
MidiClock == 248                 \* 0xF8
MidiWriteSize == 3               \* size argument of jack_midi_event_write
MidiWriteTime == 0               \* time argument of jack_midi_event_write
DefaultRising_dB == -30000       \* -30.0f
DefaultFalling_dB == -50000      \* -50.0f
DefaultLowMinTime_ms == 20000    \* 20.0f
MinFalling_dB == -100000         \* -100.0f
MaxRising_dB == 0                \* 0.0f
MinLowMinTime_ms == 0            \* 0.0f
BigStep == 1000                  \* 1.0f
SmallStep == 100                 \* 0.1f
LastParameterIndex == 2          \* "selectedParameterIndex < 2"

\* Sample rates reported by jack_get_sample_rate (scaled like FrameMod: the
\* default 20 ms are 1 frame at 50 Hz and 2 frames at 100 Hz).
SlowRate == 50
FastRate == 100

\* A sample rate of a real sound card, for the conversion of the refractory
\* time alone.
StudioRate == 48000

\* Input samples: silence and a loud sample, 33000 millionths of full scale,
\* between the linear values of -30 dB and -29 dB.
LoudAmp == 33000
Amplitudes == {0, 0 - LoudAmp}

Keys == {"ERR", "KEY_UP", "KEY_DOWN", "KEY_RIGHT", "KEY_SRIGHT", "KEY_LEFT",
         "KEY_SLEFT", "q"}

\* ------------------------------------------------------------ conversions
Pow10(n) == CASE n = 0 -> 1 [] n = 1 -> 10 [] n = 2 -> 100 [] n = 3 -> 1000
              [] n = 4 -> 10000 [] n = 5 -> 100000 [] OTHER -> 1000000

\* 10^(-d/20) in millionths, d whole dB in 0..19
WholeDbGain == <<1000000, 891251, 794328, 707946, 630957, 562341, 501187,
                 446684, 398107, 354813, 316228, 281838, 251189, 223872,
                 199526, 177828, 158489, 141254, 125893, 112202>>

\* 10^(-u/200) in thousandths, u tenths of a dB in 0..9
TenthDbGain == <<1000, 989, 977, 966, 955, 944, 933, 923, 912, 902>>

\* 10^(dB/20) for dB <= 0 (thousandths of a dB in, millionths out)
Attenuation(dB) ==
    LET t == (0 - dB) \div 100
        decades == t \div 200
        d == (t % 200) \div 10
        u == t % 10
        m == (WholeDbGain[d + 1] * TenthDbGain[u + 1]) \div 1000
    IN  IF decades > 6 THEN 0 ELSE m \div Pow10(decades)

\* #define linear_from_dB(dB) powf(10.0f, 0.05f * (dB))
linear_from_dB(dB) ==
    IF dB <= 0 THEN Attenuation(dB)
    ELSE 1000000000 \div (Attenuation(0 - dB) \div 1000)

\* A float holding a linear amplitude, read as a raw parameter (thousandths).
RawFromLinear(v) == v \div 1000

SignKept(x) == x

\* fabs
abs(x) == IF x < 0 THEN 0 - x ELSE x

VARIABLES
    \* globals of the program
    risingThreshold_dB, risingThreshold, fallingThreshold_dB, fallingThreshold,
    lowMinTime_ms, lowMinTime_frames,
    detectedBeat, nDetectedBeats, beatMaxAmplitude,
    currBeatStart, currBeatEnd, lastBeatStart, lastBeatEnd,
    earliestNextBeatStart, framesPerClockTick, nextClockTick,
    \* main()
    pcMain, sample_rate, selectedParameterIndex,
    \* process()
    pcProc, jack_callback_start_frame, i, midi_out_buffer, out,
    \* JACK and the outside world
    active,       \* the client is activated: JACK calls process()
    frameTime,    \* what jack_last_frame_time() returns for the next cycle
    scn,          \* the run's surroundings: input signal, keys in use, length
    \* history
    nSamples,     \* samples processed so far
    lastIn,       \* in[i] of the sample processed last
    lastTick,     \* that sample wrote a MIDI event
    snap,         \* the derived parameters as they were when the callback began
    onsetIdx,     \* number of the sample of the latest onset, -1 before it
    endIdx, endL, \* number of the sample of the latest beat end, -1 before
                  \* it, and the lowMinTime_frames that sample read
    ticksSinceOnset,  \* MIDI events written since the latest onset
    iv,           \* the beat interval closed by the latest onset
    passDone      \* the loop of main() has completed a pass

params == <<risingThreshold_dB, risingThreshold, fallingThreshold_dB,
            fallingThreshold, lowMinTime_ms, lowMinTime_frames>>
beat == <<detectedBeat, nDetectedBeats, beatMaxAmplitude, currBeatStart,
          currBeatEnd, lastBeatStart, lastBeatEnd, earliestNextBeatStart,
          framesPerClockTick, nextClockTick>>
mainv == <<pcMain, sample_rate, selectedParameterIndex>>
procv == <<pcProc, jack_callback_start_frame, i, midi_out_buffer, out>>
hist == <<nSamples, lastIn, lastTick, snap, onsetIdx, endIdx, endL, ticksSinceOnset, iv,
          passDone>>
vars == <<params, beat, mainv, procv, active, frameTime, scn, hist>>

ms_to_frames_rounded(x) == ((sample_rate * x + 500000) \div 1000000) % FrameMod

\* #define ms_to_frames(x) (((float) (sample_rate)) * ((float) (x)) / 1000.0f),
\* truncated by the assignment to a jack_nframes_t
ms_to_frames(x) == ((sample_rate * x) \div 1000000) % FrameMod

\* ------------------------------------------------------------ surroundings
Window(c, below, above) == [lo |-> c - below * BigStep, hi |-> c + above * BigStep]

CoarseKeys == {"ERR", "KEY_UP", "KEY_DOWN", "KEY_RIGHT", "KEY_LEFT", "q"}
FineKeys == {"ERR", "KEY_UP", "KEY_DOWN", "KEY_SRIGHT", "KEY_SLEFT", "q"}
NoKeys == {"ERR", "q"}

StartFrames == {0, FrameMod - WrapLead}

\* Any input, a short run, and either the rising threshold or the refractory
\* time moved by whole steps.
FreeRuns ==
    {[signal |-> "free", clicks |-> {}, maxFrames |-> MaxFrames,
      keys |-> {"ERR", "KEY_LEFT", "KEY_RIGHT", "q"},
      rate |-> FastRate, start |-> f,
      win |-> <<Window(DefaultRising_dB, DbSpan, 0),
                Window(DefaultRising_dB, 0, 0),
                Window(DefaultLowMinTime_ms, 0, 0)>>]
     : f \in StartFrames}
    \cup
    {[signal |-> "free", clicks |-> {}, maxFrames |-> MaxFrames, keys |-> CoarseKeys,
      rate |-> FastRate, start |-> f,
      win |-> <<Window(DefaultRising_dB, 0, 0),
                Window(DefaultRising_dB, 0, 0),
                Window(DefaultLowMinTime_ms, DbSpan, 0)>>]
     : f \in StartFrames}

\* Clicks every period samples, the first at sample FirstClick.
Metronome(period, count) == {FirstClick + k * period : k \in 0..(count - 1)}

\* A metronome: a click is PulseWidth loud samples. A steady one at 24 samples
\* a beat, one that slows from 4 to 48 samples a beat, and a fast one.
ClickRuns ==
    {[signal |-> "clicks", clicks |-> c, maxFrames |-> MaxClickFrames, keys |-> NoKeys,
      rate |-> SlowRate, start |-> f,
      win |-> <<Window(DefaultRising_dB, 0, 0),
                Window(DefaultRising_dB, 0, 0),
                Window(DefaultLowMinTime_ms, 0, 0)>>]
     : c \in {Metronome(PPQN, 7),
              Metronome(4, 4) \cup {FirstClick + 16 + k * 2 * PPQN : k \in 0..2},
              Metronome(6, 7)},
       f \in StartFrames}

FineWindow(c, below, above) ==
    [lo |-> c - below * SmallStep, hi |-> c + above * SmallStep]

\* The keyboard, with a silent input: the rising threshold lowered far, the
\* rising threshold raised to its limit, the refractory time lowered to its
\* limit, all three moved in small steps, and the refractory time moved in
\* small steps at the sample rate of a real sound card.
CtlRuns ==
    {[signal |-> "clicks", clicks |-> {}, maxFrames |-> MaxCtlFrames,
      keys |-> {"ERR", "KEY_LEFT", "q"}, rate |-> SlowRate, start |-> 0,
      win |-> <<Window(DefaultRising_dB, CtlSpan, 0),
                Window(DefaultRising_dB, 0, 0),
                Window(DefaultLowMinTime_ms, 0, 0)>>],
     [signal |-> "clicks", clicks |-> {}, maxFrames |-> MaxCtlFrames,
      keys |-> {"ERR", "KEY_LEFT", "KEY_RIGHT", "KEY_DOWN", "q"},
      rate |-> SlowRate, start |-> 0,
      win |-> <<Window(DefaultRising_dB, 0, 31),
                Window(DefaultRising_dB, 1, 1),
                Window(DefaultLowMinTime_ms, 0, 0)>>],
     [signal |-> "clicks", clicks |-> {}, maxFrames |-> MaxCtlFrames,
      keys |-> CoarseKeys, rate |-> SlowRate, start |-> 0,
      win |-> <<Window(DefaultRising_dB, 0, 0),
                Window(DefaultRising_dB, 0, 0),
                Window(DefaultLowMinTime_ms, 21, 0)>>],
     [signal |-> "clicks", clicks |-> {0}, maxFrames |-> MaxCtlFrames,
      keys |-> FineKeys, rate |-> SlowRate, start |-> 0,
      win |-> <<FineWindow(DefaultRising_dB, FineSpan, 0),
                FineWindow(DefaultRising_dB, FineSpan, FineSpan),
                FineWindow(DefaultLowMinTime_ms, FineSpan, 0)>>],
     [signal |-> "clicks", clicks |-> {}, maxFrames |-> MaxCtlFrames,
      keys |-> FineKeys, rate |-> StudioRate, start |-> 0,
      win |-> <<FineWindow(DefaultRising_dB, 0, 0),
                FineWindow(DefaultRising_dB, 0, 0),
                FineWindow(DefaultLowMinTime_ms, FineSpan, FineSpan)>>]}

\* The samples in[i] may hold when nSamples samples have been processed.
Samples ==
    IF scn.signal = "clicks"
    THEN {IF \E c \in scn.clicks : c <= nSamples /\ nSamples < c + PulseWidth
          THEN LoudAmp ELSE 0}
    ELSE Amplitudes

\* ------------------------------------------------------------------- Init
\* main() up to the call of jack_activate: the globals as their initialisers
\* and the assignments of lines 208-214 leave them.
InitProgram ==
    /\ risingThreshold_dB = DefaultRising_dB
    /\ risingThreshold = linear_from_dB(DefaultRising_dB)
    /\ fallingThreshold_dB = RawFromLinear(linear_from_dB(DefaultFalling_dB))
    /\ fallingThreshold = 0
    /\ lowMinTime_ms = DefaultLowMinTime_ms
    /\ sample_rate = scn.rate
    /\ lowMinTime_frames = ms_to_frames(DefaultLowMinTime_ms)
    /\ detectedBeat = FALSE
    /\ nDetectedBeats = 0
    /\ beatMaxAmplitude = 0
    /\ currBeatStart = 0 /\ currBeatEnd = 0
    /\ lastBeatStart = 0 /\ lastBeatEnd = 0
    /\ earliestNextBeatStart = 0
    /\ framesPerClockTick = 0 /\ nextClockTick = 0
    /\ pcMain = "activate"
    /\ selectedParameterIndex = 0
    /\ pcProc = "idle"
    /\ jack_callback_start_frame = 0
    /\ i = 0
    /\ midi_out_buffer = <<>>
    /\ out = <<>>
    /\ active = FALSE
    /\ frameTime = scn.start
    /\ nSamples = 0
    /\ lastIn = 0
    /\ lastTick = FALSE
    /\ snap = [rising |-> 0, falling |-> 0, frames |-> 0]
    /\ onsetIdx = -1
    /\ endIdx = -1 /\ endL = 0
    /\ ticksSinceOnset = 0
    /\ iv = [ticks |-> 0, warm |-> FALSE, period |-> 0]
    /\ passDone = FALSE

Init == scn \in FreeRuns /\ InitProgram
InitClicks == scn \in ClickRuns /\ InitProgram
InitCtl == scn \in CtlRuns /\ InitProgram

\* ----------------------------------------------------------------- main()
\* jack_activate (client): process() starts to be called
Activate ==
    /\ pcMain = "activate"
    /\ pcMain' = "getch"
    /\ active' = TRUE
    /\ UNCHANGED <<params, beat, sample_rate, selectedParameterIndex, procv,
                   frameTime, scn, hist>>

\* *parameterValuePointers[selectedParameterIndex] += step
AdjustSelected(step) ==
    /\ risingThreshold_dB' =
         IF selectedParameterIndex = 0 THEN risingThreshold_dB + step
         ELSE risingThreshold_dB
    /\ fallingThreshold_dB' =
         IF selectedParameterIndex = 1 THEN fallingThreshold_dB + step
         ELSE fallingThreshold_dB
    /\ lowMinTime_ms' =
         IF selectedParameterIndex = 2 THEN lowMinTime_ms + step
         ELSE lowMinTime_ms
    /\ UNCHANGED selectedParameterIndex

SelectedValue ==
    <<risingThreshold_dB, fallingThreshold_dB, lowMinTime_ms>>[selectedParameterIndex + 1]

\* The user keeps the selected parameter inside the run's window.
InWindow(step) ==
    LET w == scn.win[selectedParameterIndex + 1]
    IN  w.lo <= SelectedValue + step /\ SelectedValue + step <= w.hi

KeyStep(k) ==
    CASE k = "KEY_RIGHT" -> BigStep
      [] k = "KEY_SRIGHT" -> SmallStep
      [] k = "KEY_LEFT" -> 0 - BigStep
      [] k = "KEY_SLEFT" -> 0 - SmallStep
      [] OTHER -> 0

\* int keystroke = getch(); switch (keystroke) { ... }
Keystroke(k) ==
    /\ pcMain = "getch"
    /\ k \in scn.keys
    /\ k # "q"
    /\ CASE k = "KEY_UP" ->
              /\ selectedParameterIndex' =
                   IF selectedParameterIndex > 0 THEN selectedParameterIndex - 1
                   ELSE selectedParameterIndex
              /\ UNCHANGED <<risingThreshold_dB, fallingThreshold_dB, lowMinTime_ms>>
         [] k = "KEY_DOWN" ->
              /\ selectedParameterIndex' =
                   IF selectedParameterIndex < LastParameterIndex
                   THEN selectedParameterIndex + 1
                   ELSE selectedParameterIndex
              /\ UNCHANGED <<risingThreshold_dB, fallingThreshold_dB, lowMinTime_ms>>
         [] k \in {"KEY_RIGHT", "KEY_SRIGHT", "KEY_LEFT", "KEY_SLEFT"} ->
              /\ InWindow(KeyStep(k))
              /\ AdjustSelected(KeyStep(k))
         [] OTHER ->
              UNCHANGED <<risingThreshold_dB, fallingThreshold_dB, lowMinTime_ms,
                          selectedParameterIndex>>
    /\ pcMain' = "clamp"
    /\ UNCHANGED <<risingThreshold, fallingThreshold, lowMinTime_frames, beat,
                   sample_rate, procv, active, frameTime, scn, hist>>

\* case 'q': goto exit; endwin(); jack_client_close (client); exit (0);
Quit ==
    /\ pcMain = "getch"
    /\ "q" \in scn.keys
    /\ pcMain' = "exit"
    /\ active' = FALSE
    /\ UNCHANGED <<params, beat, sample_rate, selectedParameterIndex, procv,
                   frameTime, scn, hist>>

\* the four if statements of lines 329-339
ClampRising(r) == IF r > MaxRising_dB THEN MaxRising_dB ELSE r
ClampFallingLow(f) == IF f < MinFalling_dB THEN MinFalling_dB ELSE f
ClampFallingHigh(f, r) == IF f > r THEN r ELSE f
ClampLowMinTime(m) == IF m < MinLowMinTime_ms THEN MinLowMinTime_ms ELSE m

Clamp ==
    /\ pcMain = "clamp"
    /\ risingThreshold_dB' = ClampRising(risingThreshold_dB)
    /\ fallingThreshold_dB' =
         ClampFallingHigh(ClampFallingLow(fallingThreshold_dB), risingThreshold_dB')
    /\ lowMinTime_ms' = ClampLowMinTime(lowMinTime_ms)
    /\ pcMain' = "frames"
    /\ UNCHANGED <<risingThreshold, fallingThreshold, lowMinTime_frames, beat,
                   sample_rate, selectedParameterIndex, procv, active, frameTime,
                   scn, hist>>

PublishFramesResetsCount ==
    /\ pcMain = "frames"
    /\ lowMinTime_frames' = ms_to_frames(lowMinTime_ms)
    /\ nDetectedBeats' = 0
    /\ pcMain' = "rising"
    /\ UNCHANGED <<risingThreshold_dB, risingThreshold, fallingThreshold_dB,
                   fallingThreshold, lowMinTime_ms, detectedBeat, beatMaxAmplitude,
                   currBeatStart, currBeatEnd, lastBeatStart, lastBeatEnd,
                   earliestNextBeatStart, framesPerClockTick, nextClockTick,
                   sample_rate, selectedParameterIndex, procv, active, frameTime,
                   scn, hist>>

\* lowMinTime_frames = ms_to_frames(lowMinTime_ms);
PublishFrames ==
    /\ pcMain = "frames"
    /\ lowMinTime_frames' = ms_to_frames(lowMinTime_ms)
    /\ pcMain' = "rising"
    /\ UNCHANGED <<risingThreshold_dB, risingThreshold, fallingThreshold_dB,
                   fallingThreshold, lowMinTime_ms, beat, sample_rate,
                   selectedParameterIndex, procv, active, frameTime, scn, hist>>

\* risingThreshold = linear_from_dB(risingThreshold_dB);
PublishRising ==
    /\ pcMain = "rising"
    /\ risingThreshold' = linear_from_dB(risingThreshold_dB)
    /\ pcMain' = "falling"
    /\ UNCHANGED <<risingThreshold_dB, fallingThreshold_dB, fallingThreshold,
                   lowMinTime_ms, lowMinTime_frames, beat, sample_rate,
                   selectedParameterIndex, procv, active, frameTime, scn, hist>>

\* fallingThreshold = linear_from_dB(fallingThreshold_dB); then the display,
\* which only reads, and back to getch()
PublishFalling ==
    /\ pcMain = "falling"
    /\ fallingThreshold' = linear_from_dB(fallingThreshold_dB)
    /\ pcMain' = "getch"
    /\ passDone' = TRUE
    /\ UNCHANGED <<risingThreshold_dB, risingThreshold, fallingThreshold_dB,
                   lowMinTime_ms, lowMinTime_frames, beat, sample_rate,
                   selectedParameterIndex, procv, active, frameTime, scn,
                   nSamples, lastIn, lastTick, snap, onsetIdx, endIdx,
                   endL, ticksSinceOnset, iv>>

\* ---------------------------------------------------------------- process()
\* unsigned char jbuffer[4] = {0xF8, 0, 0, 0}
jbuffer == <<MidiClock, 0, 0, 0>>

\* jack_nframes_t currFrame = jack_callback_start_frame + i;
currFrameAt(k) == (jack_callback_start_frame + k) % FrameMod

OnsetCondRetrigger(a, f, rT) == f > earliestNextBeatStart /\ a > rT

\* !detectedBeat && currFrame > earliestNextBeatStart && absoluteInput > risingThreshold
OnsetCond(a, f, rT) == ~detectedBeat /\ f > earliestNextBeatStart /\ a > rT

\* else if (detectedBeat && absoluteInput < fallingThreshold)
EndCond(a, fT) == detectedBeat /\ a < fT

MeasuresFirstBeat(n) == n > 0

\* if (nDetectedBeats > 1)
Measures(n) == n > 1

MeasuredTickSigned(cs, ls) == (cs - ls) \div PPQN

\* framesPerClockTick = (currBeatStart - lastBeatStart) / 24;
MeasuredTick(cs, ls) == ((cs - ls) % FrameMod) \div PPQN

\* earliestNextBeatStart = lowMinTime_frames + currFrame;
NextEarliest(lmf, f) == (lmf + f) % FrameMod

TickDueNoWarmup(f, nct, n) == f = nct

\* if (currFrame == nextClockTick && nDetectedBeats > 4)
TickDue(f, nct, n) == f = nct /\ n > WarmupBeats

AdvanceTickLate(f, p) == (f + p + 1) % FrameMod

\* nextClockTick = currFrame + framesPerClockTick;
AdvanceTick(f, p) == (f + p) % FrameMod

\* jack_midi_event_write(midi_out_buffer, 0, jbuffer, 3): the event's time and
\* the bytes JACK copies
MidiEvent(k) == [time |-> MidiWriteTime, data |-> SubSeq(jbuffer, 1, MidiWriteSize)]

\* lines 66-78: the buffers of this cycle, the cycle's first frame, the cleared
\* MIDI buffer
ProcessBegin ==
    /\ active
    /\ pcProc = "idle"
    /\ nSamples + BufferSize <= scn.maxFrames
    /\ pcProc' = "loop"
    /\ jack_callback_start_frame' = frameTime
    /\ midi_out_buffer' = <<>>
    /\ out' = <<>>
    /\ i' = 0
    /\ snap' = [rising |-> risingThreshold, falling |-> fallingThreshold,
                frames |-> lowMinTime_frames]
    /\ UNCHANGED <<params, beat, mainv, active, frameTime, scn, nSamples, lastIn,
                   lastTick, onsetIdx, endIdx, endL, ticksSinceOnset, iv, passDone>>

\* one pass of the for loop, lines 82-113, on the sample x = in[i]
ProcessSample(x) ==
    /\ active
    /\ pcProc = "loop"
    /\ i < BufferSize
    /\ x \in Samples
    /\ LET absoluteInput == abs(x)
           currFrame == currFrameAt(i)
           onset == OnsetCond(absoluteInput, currFrame, risingThreshold)
           end == ~onset /\ EndCond(absoluteInput, fallingThreshold)
           n1 == IF onset THEN nDetectedBeats + 1 ELSE nDetectedBeats
           measured == onset /\ Measures(n1)
           tick1 == IF measured THEN MeasuredTick(currFrame, currBeatStart)
                    ELSE framesPerClockTick
           next1 == IF measured THEN AdvanceTick(currFrame, tick1) ELSE nextClockTick
           tick == TickDue(currFrame, next1, n1)
       IN  /\ detectedBeat' = IF onset THEN TRUE ELSE IF end THEN FALSE ELSE detectedBeat
           /\ nDetectedBeats' = n1
           /\ beatMaxAmplitude' = IF onset THEN absoluteInput ELSE beatMaxAmplitude
           /\ lastBeatStart' = IF onset THEN currBeatStart ELSE lastBeatStart
           /\ currBeatStart' = IF onset THEN currFrame ELSE currBeatStart
           /\ framesPerClockTick' = tick1
           /\ lastBeatEnd' = IF end THEN currBeatEnd ELSE lastBeatEnd
           /\ currBeatEnd' = IF end THEN currFrame ELSE currBeatEnd
           /\ earliestNextBeatStart' =
                IF end THEN NextEarliest(lowMinTime_frames, currFrame)
                ELSE earliestNextBeatStart
           /\ out' = Append(out, absoluteInput)
           /\ midi_out_buffer' =
                IF tick THEN Append(midi_out_buffer, MidiEvent(i)) ELSE midi_out_buffer
           /\ nextClockTick' = IF tick THEN AdvanceTick(currFrame, tick1) ELSE next1
           /\ lastIn' = x
           /\ lastTick' = tick
           /\ onsetIdx' = IF onset THEN nSamples ELSE onsetIdx
           /\ endIdx' = IF end THEN nSamples ELSE endIdx
           /\ endL' = IF end THEN lowMinTime_frames ELSE endL
           /\ ticksSinceOnset' =
                (IF onset THEN 0 ELSE ticksSinceOnset) + (IF tick THEN 1 ELSE 0)
           /\ iv' = IF onset
                    THEN [ticks |-> ticksSinceOnset,
                          warm |-> nDetectedBeats > WarmupBeats,
                          period |-> framesPerClockTick]
                    ELSE iv
    /\ i' = i + 1
    /\ nSamples' = nSamples + 1
    /\ UNCHANGED <<params, mainv, pcProc, jack_callback_start_frame, active,
                   frameTime, scn, snap, passDone>>

\* return 0; the cycle's buffers go back to JACK, whose frame time moves on by
\* nframes
ProcessReturn ==
    /\ active
    /\ pcProc = "loop"
    /\ i = BufferSize
    /\ pcProc' = "idle"
    /\ i' = 0
    /\ jack_callback_start_frame' = 0
    /\ midi_out_buffer' = <<>>
    /\ out' = <<>>
    /\ frameTime' = (frameTime + BufferSize) % FrameMod
    /\ lastIn' = 0
    /\ lastTick' = FALSE
    /\ snap' = [rising |-> 0, falling |-> 0, frames |-> 0]
    /\ UNCHANGED <<params, beat, mainv, active, scn, nSamples, onsetIdx, endIdx,
                   endL, ticksSinceOnset, iv, passDone>>

\* ------------------------------------------------------------------- Next
Next ==
    \/ Activate
    \/ \E k \in Keys : Keystroke(k)
    \/ Quit
    \/ Clamp
    \/ PublishFrames
    \/ PublishRising
    \/ PublishFalling
    \/ ProcessBegin
    \/ \E x \in Amplitudes \cup {LoudAmp} : ProcessSample(x)
    \/ ProcessReturn

Spec == Init /\ [][Next]_vars
SpecClicks == InitClicks /\ [][Next]_vars
SpecCtl == InitCtl /\ [][Next]_vars

\* ------------------------------------------------------------- properties
\* The frame of the sample processed last (meaningful while i > 0).
lastFrame == currFrameAt(i - 1)

\* The sample processed last exists: the callback is inside its loop.
Sampled == pcProc = "loop" /\ i > 0

\* Some processed sample had a frame number past the wrap of the counter.
FrameCounterWrapped == scn.start + nSamples > FrameMod

\* C1: after a beat end at sample e that read lowMinTime_frames = L, no onset
\* happens at any of the samples e+1 .. e+L, whatever the input is.
C1_Refractory ==
    (endIdx >= 0 /\ onsetIdx > endIdx) => onsetIdx > endIdx + endL

\* Frame f is B + k*P for some k >= 1, in the arithmetic of the frame counter.
OnGrid(f, B, P) ==
    LET d == (f - B) % FrameMod
    IN  IF P = 0 THEN d = 0 ELSE d > 0 /\ d % P = 0

\* C2: after the warm-up, with the latest onset at frame B and
\* framesPerClockTick = P, a sample writes a MIDI event exactly when its frame
\* is B + k*P for some k >= 1; the event holds one clock byte, and
\* nextClockTick is then the sample's frame plus P.
C2_TickCadence ==
    (Sampled /\ nDetectedBeats > WarmupBeats) =>
        /\ lastTick <=> OnGrid(lastFrame, currBeatStart, framesPerClockTick)
        /\ lastTick =>
             /\ midi_out_buffer # <<>>
             /\ LET e == midi_out_buffer[Len(midi_out_buffer)]
                IN  Cardinality({j \in DOMAIN e.data : e.data[j] = MidiClock}) = 1
             /\ nextClockTick = (lastFrame + framesPerClockTick) % FrameMod

\* A tick on the grid two or more periods after the onset, with a period of
\* two frames or more.
C2_Witness ==
    /\ Sampled /\ nDetectedBeats > WarmupBeats /\ lastTick
    /\ framesPerClockTick >= 2
    /\ (lastFrame - currBeatStart) % FrameMod >= 2 * framesPerClockTick

\* C3: when two onsets after the warm-up are T = 24 * P frames apart and the
\* clock ran at P frames a tick between them, 24 MIDI events were written in
\* the interval from the first onset up to, not including, the second.
C3_TwentyFourPerBeat ==
    (/\ iv.warm
     /\ iv.period >= 1
     /\ (currBeatStart - lastBeatStart) % FrameMod = PPQN * iv.period)
    => iv.ticks = PPQN

\* C4: a MIDI event written by a sample is the one byte 0xF8, stamped with
\* the sample's offset in the buffer.
C4_MidiEventFormat ==
    (Sampled /\ lastTick) =>
        LET e == midi_out_buffer[Len(midi_out_buffer)]
        IN  e.data = <<MidiClock>> /\ e.time = i - 1

\* C5: while nDetectedBeats <= 4 no sample writes a MIDI event.
C5_Warmup ==
    nDetectedBeats <= WarmupBeats => (midi_out_buffer = <<>> /\ ~lastTick)

\* A sample at the very frame of nextClockTick, after a period was measured
\* and before the warm-up is over.
C5_Witness ==
    /\ Sampled /\ lastFrame = nextClockTick
    /\ nDetectedBeats > 1 /\ nDetectedBeats <= WarmupBeats

\* C6: every sample of a buffer decides as the parameter values of the start
\* of the callback make it decide.
C6_SnapshotPerBuffer ==
    [][nSamples' = nSamples + 1 =>
        LET a == abs(lastIn')
            f == currFrameAt(i)
            onset == OnsetCond(a, f, snap.rising)
            end == ~onset /\ EndCond(a, snap.falling)
        IN  /\ detectedBeat' = (IF onset THEN TRUE ELSE IF end THEN FALSE
                                ELSE detectedBeat)
            /\ earliestNextBeatStart' =
                 (IF end THEN NextEarliest(snap.frames, f)
                  ELSE earliestNextBeatStart)]_vars

\* C7: after every pass of the loop of main() the raw parameters are in range.
C7_ClampRanges ==
    (pcMain = "getch" /\ passDone) =>
        /\ risingThreshold_dB <= MaxRising_dB
        /\ MinFalling_dB <= fallingThreshold_dB
        /\ fallingThreshold_dB <= risingThreshold_dB
        /\ lowMinTime_ms >= MinLowMinTime_ms

\* C8: when the callback is activated and after every pass of the loop the
\* derived values are the conversions of the raw ones, and before the first
\* key the raw values are the defaults.
C8_DerivedFromRaw ==
    (pcMain = "getch") =>
        /\ risingThreshold = linear_from_dB(risingThreshold_dB)
        /\ fallingThreshold = linear_from_dB(fallingThreshold_dB)
        /\ lowMinTime_frames = ms_to_frames(lowMinTime_ms)
        /\ ~passDone =>
             /\ risingThreshold_dB = DefaultRising_dB
             /\ fallingThreshold_dB = DefaultFalling_dB
             /\ lowMinTime_ms = DefaultLowMinTime_ms

\* C9: while the frame counter has not wrapped, a beat end stores in
\* earliestNextBeatStart a value greater than the one it replaces.
C9_EarliestOnlyForward ==
    [][(endIdx' # endIdx /\ ~FrameCounterWrapped') =>
         earliestNextBeatStart' > earliestNextBeatStart]_vars

\* C10: framesPerClockTick changes only in a step that starts a beat and
\* leaves nDetectedBeats above 1.
C10_TempoAtBeatOnly ==
    [][framesPerClockTick' # framesPerClockTick =>
         /\ ~detectedBeat /\ detectedBeat'
         /\ nDetectedBeats' = nDetectedBeats + 1
         /\ nDetectedBeats' > 1]_vars

\* The sample processed last started a beat and changed framesPerClockTick.
C10_Witness ==
    /\ Sampled /\ onsetIdx = nSamples - 1
    /\ nDetectedBeats > 1
    /\ framesPerClockTick # iv.period

\* A step of main(): its position in the loop moves.
MainStep == pcMain' # pcMain

\* A step of process(): the callback begins, handles a sample or returns.
ProcessStep == pcProc' # pcProc \/ nSamples' # nSamples

\* C11: no step of main() changes a beat or clock variable, and no step of
\* process() changes a parameter variable, raw or derived.
C11_StateOwnership ==
    [][/\ MainStep => beat' = beat
       /\ ProcessStep => params' = params]_vars

\* main() has moved a parameter and republished it after process() counted a
\* beat, and process() is handling samples with the new values.
C11_Witness ==
    /\ Sampled /\ nDetectedBeats >= 1
    /\ passDone /\ pcMain = "getch"
    /\ risingThreshold_dB # DefaultRising_dB
    /\ risingThreshold = linear_from_dB(risingThreshold_dB)

\* o is the magnitude of x: the one of x and -x that is not negative.
IsMagnitude(o, x) == o >= 0 /\ o \in {x, 0 - x}

\* C12: every sample handled appends to the output buffer the magnitude of
\* its input and leaves the entries written before it as they are, whatever
\* the detector and the clock do on that sample.
C12_PassThrough ==
    [][nSamples' = nSamples + 1 =>
         /\ Len(out') = i + 1
         /\ IsMagnitude(out'[i + 1], lastIn')
         /\ SubSeq(out', 1, i) = out]_vars

\* A negative loud sample that started a beat, as the second sample of its
\* buffer.
C12_Witness ==
    /\ Sampled /\ i = BufferSize
    /\ lastIn < 0 /\ onsetIdx = nSamples - 1
    /\ out[i] = 0 - lastIn

\* C13: at activation and after every pass of the loop of main()
\* lowMinTime_frames is sample_rate * lowMinTime_ms / 1000 with the fraction
\* cut off; at 48000 frames a second and 20 ms it is 960.
C13_FramesFromMs ==
    (pcMain \in {"activate", "getch"}) =>
        /\ lowMinTime_frames * 1000000 <= sample_rate * lowMinTime_ms
        /\ sample_rate * lowMinTime_ms < (lowMinTime_frames + 1) * 1000000
        /\ (sample_rate = 48000 /\ lowMinTime_ms = 20000) => lowMinTime_frames = 960

\* After a pass of the loop, at 48000 frames a second, a refractory time that
\* is not a whole number of frames.
C13_Witness ==
    /\ pcMain = "getch" /\ passDone
    /\ sample_rate = StudioRate
    /\ (sample_rate * lowMinTime_ms) % 1000000 # 0
    /\ lowMinTime_frames > 0

\* C14: a sample that starts a beat moves currBeatStart to lastBeatStart and
\* its own frame to currBeatStart. From the second beat on,
\* framesPerClockTick becomes the number of frames since the previous onset
\* divided by 24, also when the frame counter wrapped between the two
\* onsets, and nextClockTick the onset's frame plus that, in the counter's
\* arithmetic. On the first beat both stay 0.
C14_PeriodMeasurement ==
    [][onsetIdx' # onsetIdx =>
         /\ lastBeatStart' = currBeatStart
         /\ currBeatStart' = (scn.start + nSamples) % FrameMod
         /\ IF onsetIdx >= 0
            THEN /\ nDetectedBeats' >= 2
                 /\ framesPerClockTick' = (nSamples - onsetIdx) \div PPQN
                 /\ nextClockTick' =
                      (currBeatStart' + framesPerClockTick') % FrameMod
            ELSE /\ nDetectedBeats' = 1
                 /\ framesPerClockTick' = 0 /\ nextClockTick' = 0]_vars

\* The sample processed last started a beat after the counter wrapped, the
\* beat before it started ahead of the wrap, and the period measured is not 0.
C14_Witness ==
    /\ Sampled /\ onsetIdx = nSamples - 1
    /\ nDetectedBeats >= 2
    /\ currBeatStart < lastBeatStart
    /\ framesPerClockTick >= 1

\* C15: detectedBeat changes only when a sample is handled. It turns true
\* only on a sample whose frame is past earliestNextBeatStart and whose
\* magnitude is above risingThreshold, and nDetectedBeats then grows by 1; it
\* turns false only on a sample whose magnitude is below fallingThreshold;
\* nDetectedBeats changes in no other step. Onsets and ends alternate, the
\* first being an onset.
C15_Hysteresis ==
    [][LET a == abs(lastIn')
           f == (scn.start + nSamples) % FrameMod
           onset == ~detectedBeat /\ detectedBeat'
           end == detectedBeat /\ ~detectedBeat'
       IN  /\ (onset \/ end) => nSamples' = nSamples + 1
           /\ onset => /\ f > earliestNextBeatStart
                        /\ a > risingThreshold
                        /\ onsetIdx' = nSamples
                        /\ (onsetIdx < 0 \/ endIdx > onsetIdx)
           /\ end => /\ a < fallingThreshold
                      /\ endIdx' = nSamples
                      /\ onsetIdx > endIdx
           /\ nDetectedBeats' =
                (IF onset THEN nDetectedBeats + 1 ELSE nDetectedBeats)
           /\ ~onset => onsetIdx' = onsetIdx
           /\ ~end => endIdx' = endIdx]_vars

\* The sample processed last started the second beat or a later one, after
\* the beat before it had ended.
C15_Witness ==
    /\ Sampled /\ onsetIdx = nSamples - 1
    /\ nDetectedBeats >= 2
    /\ endIdx >= 0 /\ endIdx < onsetIdx

\* C16: whenever a sample is handled, the fallingThreshold it reads is not
\* above the risingThreshold it reads.
C16_ThresholdOrderSeen ==
    [][nSamples' = nSamples + 1 => fallingThreshold <= risingThreshold]_vars

\* C17: while the frame counter has not wrapped, after every sample handled
\* with nDetectedBeats > 4 the period is at least one frame and nextClockTick
\* is a frame after that sample's.
C17_ClockNeverStalls ==
    (Sampled /\ nDetectedBeats > WarmupBeats /\ ~FrameCounterWrapped) =>
        /\ framesPerClockTick >= 1
        /\ nextClockTick > lastFrame

\* C18: while the frame counter has not wrapped, between samples:
\* lastBeatStart <= currBeatStart and lastBeatEnd <= currBeatEnd; in a beat,
\* currBeatStart is above currBeatEnd and earliestNextBeatStart; out of a
\* beat, once one was counted, currBeatStart < currBeatEnd <=
\* earliestNextBeatStart.
C18_BeatOrdering ==
    ~FrameCounterWrapped =>
        /\ lastBeatStart <= currBeatStart
        /\ lastBeatEnd <= currBeatEnd
        /\ detectedBeat =>
             /\ currBeatStart > currBeatEnd
             /\ currBeatStart > earliestNextBeatStart
        /\ (~detectedBeat /\ nDetectedBeats >= 1) =>
             /\ currBeatStart < currBeatEnd
             /\ currBeatEnd <= earliestNextBeatStart

\* C19: a sample of amplitude 0 handled while detectedBeat is true sets
\* detectedBeat to false and stores in earliestNextBeatStart its frame plus
\* lowMinTime_frames, also before the loop of main() has completed a pass.
C19_SilenceEndsBeat ==
    [][(nSamples' = nSamples + 1 /\ detectedBeat /\ lastIn' = 0) =>
         /\ ~detectedBeat'
         /\ endIdx' = nSamples
         /\ earliestNextBeatStart' =
              (lowMinTime_frames + scn.start + nSamples) % FrameMod]_vars

====
